---- MODULE Spec2Model ----
(***************************************************************************)
(* The registry application of PortAuthority: the Application model        *)
(* (registry/models.py), its validation, its derived full_address, the     *)
(* persistence operations the tests use, the admin form and the list view. *)
(*                                                                         *)
(* Python strings are sequences of one-character strings, so that the      *)
(* regular expression, rstrip and the f-string of full_address are         *)
(* computed character by character.                                        *)
(***************************************************************************)
EXTENDS Integers, Sequences, FiniteSets, TLC

VARIABLES candidate, errors, out, store, written, nextId, response, lastOp

vars == <<candidate, errors, out, store, written, nextId, response, lastOp>>

(***************************************************************************)
(* Bounds of the model.                                                    *)
(***************************************************************************)
\* urls are drawn from the test suite's urls and from every concatenation of
\* at most MaxUrlParts pieces of UrlPieces
MaxUrlParts == 3
\* rows a store of the persistence specification may hold
MaxRecords == 2
\* rows the list view's store holds beyond two full pages
MaxExtraRows == 3

(***************************************************************************)
(* Characters and strings.                                                 *)
(***************************************************************************)
Lower == <<"a","b","c","d","e","f","g","h","i","j","k","l","m",
           "n","o","p","q","r","s","t","u","v","w","x","y","z">>

Upper == <<"A","B","C","D","E","F","G","H","I","J","K","L","M",
           "N","O","P","Q","R","S","T","U","V","W","X","Y","Z">>

Digits == <<"0","1","2","3","4","5","6","7","8","9">>

Range(s) == {s[i] : i \in DOMAIN s}

\* the least number of a non-empty set of numbers
Min(S) == CHOOSE x \in S : \A y \in S : x <= y

\* [a-zA-Z]
LetterChars == Range(Lower) \cup Range(Upper)

\* [a-zA-Z0-9+.-]
SchemeChars == LetterChars \cup Range(Digits) \cup {"+", ".", "-"}

\* 'c' * n
Repeat(c, n) == [i \in 1..n |-> c]

\* s[from:] of Python, from counted from 1
DropFirst(s, from) == SubSeq(s, from, Len(s))

\* s.startswith(p)
StartsWith(s, p) == Len(s) >= Len(p) /\ SubSeq(s, 1, Len(p)) = p

\* the decimal digits of a natural number, str(n) for n >= 0
RECURSIVE NatToStr(_)
NatToStr(n) ==
    IF n < 10 THEN <<Digits[n + 1]>>
    ELSE NatToStr(n \div 10) \o <<Digits[(n % 10) + 1]>>

\* str(n) / f"{n}" of a Python int
IntToStr(n) == IF n < 0 THEN <<"-">> \o NatToStr(0 - n) ELSE NatToStr(n)

(***************************************************************************)
(* full_address (models.py 58-76).                                         *)
(***************************************************************************)
\* the index of the first character at or after position i that is not in
\* [a-zA-Z0-9+.-], Len(s) + 1 when there is none: where the greedy class
\* [a-zA-Z0-9+.-]* of protocol_pattern stops
SchemeRunEnd(s, i) ==
    LET stops == {j \in i..Len(s) : s[j] \notin SchemeChars}
    IN  IF stops = {} THEN Len(s) + 1 ELSE Min(stops)

\* the length of the match of r'^[a-zA-Z][a-zA-Z0-9+.-]*://' at the start of
\* s, 0 when it does not match.  ':' is outside the class, so the greedy run
\* never has to give a character back.
ProtocolMatchLen(s) ==
    IF Len(s) = 0 \/ s[1] \notin LetterChars THEN 0
    ELSE LET e == SchemeRunEnd(s, 2)
         IN  IF e + 2 <= Len(s) /\ s[e] = ":" /\ s[e + 1] = "/" /\ s[e + 2] = "/"
             THEN e + 2
             ELSE 0

\* re.match(protocol_pattern, clean_url)
re_match(s) == ProtocolMatchLen(s) > 0

\* re.sub(protocol_pattern, '', clean_url): the pattern is anchored by ^, so
\* only a match at the start is replaced
re_sub(s) ==
    IF ProtocolMatchLen(s) > 0 THEN DropFirst(s, ProtocolMatchLen(s) + 1) ELSE s

\* clean_url.rstrip('/')
rstrip(s) ==
    LET kept == CHOOSE k \in 0..Len(s) :
                    /\ k = 0 \/ s[k] # "/"
                    /\ \A i \in (k + 1)..Len(s) : s[i] = "/"
    IN  SubSeq(s, 1, kept)

\* the address without the removal of the url's scheme and trailing slashes
full_address_verbatim(self) ==
    self.protocol \o <<":", "/", "/">> \o self.url \o <<":">> \o IntToStr(self.port)

\* Application.full_address
full_address(self) ==
    LET clean_url == IF re_match(self.url) THEN re_sub(self.url) ELSE self.url
    IN  self.protocol \o <<":", "/", "/">> \o rstrip(clean_url)
            \o <<":">> \o IntToStr(self.port)

\* a __str__ that formats the fields itself instead of using full_address
str_verbatim(self) ==
    self.protocol \o <<":", "/", "/">> \o self.url \o <<":">> \o IntToStr(self.port)

\* Application.__str__
str(self) == full_address(self)

(***************************************************************************)
(* Field validation (models.py 8-21 and 48-56).  An error is its message,  *)
(* a sequence of text fragments; a validator yields the set of errors it   *)
(* raises, {} when it returns normally.                                    *)
(***************************************************************************)
Fields == {"protocol", "url", "port"}

http == <<"h","t","t","p">>
https == <<"h","t","t","p","s">>
ftp == <<"f","t","p">>
ftps == <<"f","t","p","s">>
tcp == <<"t","c","p">>
udp == <<"u","d","p">>

\* choices=[('http', 'HTTP'), ('https', 'HTTPS'), ('ftp', 'FTP'), ...]
ProtocolChoices == {http, https, ftp, tcp, udp}

\* the message of validate_port_range's ValidationError
PortRangeMessage(value) ==
    <<"Port number must be between 1 and 65535", ". Got: ">> \o IntToStr(value)

\* the range check with its lower limit off by one
validate_port_range_from_zero(value) ==
    IF value < 0 \/ value > 65535 THEN {PortRangeMessage(value)} ELSE {}

validate_port_range(value) ==
    IF value < 1 \/ value > 65535 THEN {PortRangeMessage(value)} ELSE {}

\* the validator PositiveIntegerField adds for the column's lower limit
MinValueValidator(value) ==
    IF value < 0
    THEN {<<"Ensure this value is greater than or equal to 0.">>}
    ELSE {}

\* the validator CharField(max_length=limit) adds
MaxLengthValidator(value, limit) ==
    IF Len(value) > limit
    THEN {<<"Ensure this value has at most ">> \o IntToStr(limit)
            \o <<" characters (it has ">> \o IntToStr(Len(value)) \o <<").">>}
    ELSE {}

\* the first index i >= from with s[i] \in cs, Len(s) + 1 when there is none
FindChar(s, cs, from) ==
    LET hits == {i \in from..Len(s) : s[i] \in cs}
    IN  IF hits = {} THEN Len(s) + 1 ELSE Min(hits)

\* the first index i >= from where sub starts in s, 0 when there is none
FindSub(s, sub, from) ==
    LET hits == {i \in from..(Len(s) - Len(sub) + 1) : SubSeq(s, i, i + Len(sub) - 1) = sub}
    IN  IF hits = {} THEN 0 ELSE Min(hits)

\* s.split('.')
RECURSIVE SplitDots(_)
SplitDots(s) ==
    LET d == FindChar(s, {"."}, 1)
    IN  IF d > Len(s) THEN <<s>>
        ELSE <<SubSeq(s, 1, d - 1)>> \o SplitDots(DropFirst(s, d + 1))

\* [a-z0-9] under re.IGNORECASE
Alnum == LetterChars \cup Range(Digits)

\* a label [a-z0-9-]{1,63} that neither starts nor ends with '-'
IsLabel(l) ==
    /\ Len(l) \in 1..63
    /\ Range(l) \subseteq Alnum \cup {"-"}
    /\ l[1] # "-" /\ l[Len(l)] # "-"

\* a top-level domain [a-z-]{2,63} that neither starts nor ends with '-'
IsTld(l) ==
    /\ Len(l) \in 2..63
    /\ Range(l) \subseteq LetterChars \cup {"-"}
    /\ l[1] # "-" /\ l[Len(l)] # "-"

\* one number 0..255 of a dotted IPv4 address, without a leading zero
IsOctet(l) ==
    /\ Len(l) \in 1..3
    /\ Range(l) \subseteq Range(Digits)
    /\ (Len(l) > 1 => l[1] # "0")
    /\ (Len(l) = 3 => \/ l[1] = "1"
                      \/ l[1] = "2" /\ l[2] \in {"0","1","2","3","4"}
                      \/ l[1] = "2" /\ l[2] = "5" /\ l[3] \in {"0","1","2","3","4","5"})

\* the host of a url: localhost, a dotted IPv4 address, or a domain name
\* ending in a top-level domain
IsHost(h) ==
    LET labels == SplitDots(h)
        n == Len(labels)
    IN  \/ h = <<"l","o","c","a","l","h","o","s","t">>
        \/ n = 4 /\ \A i \in 1..4 : IsOctet(labels[i])
        \/ /\ n >= 2
           /\ Len(h) <= 253
           /\ \A i \in 1..(n - 1) : IsLabel(labels[i])
           /\ IsTld(labels[n])

\* the schemes URLValidator accepts
UrlSchemes == {http, https, ftp, ftps}

\* whether URLValidator accepts value: scheme://host[:port][/...] with the
\* scheme one of UrlSchemes (user names, IPv6 literals and non-ASCII hosts
\* are outside the inputs enumerated here)
IsUrl(value) ==
    LET sep == FindSub(value, <<":", "/", "/">>, 1)
        rest == DropFirst(value, sep + 3)
        stop == FindChar(rest, {"/", "?", "#"}, 1)
        authority == SubSeq(rest, 1, stop - 1)
        colon == FindChar(authority, {":"}, 1)
        host == SubSeq(authority, 1, colon - 1)
        port == DropFirst(authority, colon + 1)
    IN  /\ sep > 0
        /\ SubSeq(value, 1, sep - 1) \in UrlSchemes
        /\ IsHost(host)
        /\ (colon <= Len(authority) =>
               Len(port) \in 1..5 /\ Range(port) \subseteq Range(Digits))
        /\ " " \notin Range(rest)

URLValidator(value) == IF IsUrl(value) THEN {} ELSE {<<"Enter a valid URL.">>}

\* the protocol field without its choices
CleanProtocol_without_choices(value) ==
    IF value = <<>> THEN {<<"This field cannot be blank.">>}
    ELSE MaxLengthValidator(value, 10)

\* Field.clean of protocol = CharField(max_length=10, choices=[...]):
\* validate() raises on a value outside the choices or on a blank one
\* before the validators run
CleanProtocol(value) ==
    IF value = <<>> THEN {<<"This field cannot be blank.">>}
    ELSE IF value \notin ProtocolChoices
         THEN {<<"Value ">> \o value \o <<" is not a valid choice.">>}
         ELSE MaxLengthValidator(value, 10)

\* the url field without max_length
CleanUrl_without_max_length(value) ==
    IF value = <<>> THEN {<<"This field cannot be blank.">>}
    ELSE URLValidator(value)

\* Field.clean of url = URLField(max_length=255): run_validators collects
\* the errors of every validator
CleanUrl(value) ==
    IF value = <<>> THEN {<<"This field cannot be blank.">>}
    ELSE URLValidator(value) \cup MaxLengthValidator(value, 255)

\* the port field without validators=[validate_port_range]
CleanPort_without_validator(value) == MinValueValidator(value)

\* Field.clean of port = PositiveIntegerField(validators=[validate_port_range])
CleanPort(value) == validate_port_range(value) \cup MinValueValidator(value)

\* a full_clean that raises at the first field with an error
full_clean_first_error(self) ==
    [f \in Fields |->
        CASE f = "protocol" -> CleanProtocol(self.protocol)
          [] f = "url" ->
                IF CleanProtocol(self.protocol) = {} THEN CleanUrl(self.url) ELSE {}
          [] f = "port" ->
                IF CleanProtocol(self.protocol) = {} /\ CleanUrl(self.url) = {}
                THEN CleanPort(self.port)
                ELSE {}]

\* Model.full_clean of an Application: clean_fields visits every field and
\* keeps each field's errors under the field's name
full_clean(self) ==
    [f \in Fields |->
        CASE f = "protocol" -> CleanProtocol(self.protocol)
          [] f = "url" -> CleanUrl(self.url)
          [] f = "port" -> CleanPort(self.port)]

NoErrors == [f \in Fields |-> {}]

\* the fields a ValidationError's error_dict names
ErrorFields(e) == {f \in Fields : e[f] # {}}

(***************************************************************************)
(* Inputs.                                                                 *)
(***************************************************************************)
example_com == <<"e","x","a","m","p","l","e",".","c","o","m">>

Sep == <<":", "/", "/">>

\* setUp's valid_application_data
valid_application_data ==
    [protocol |-> https, url |-> https \o Sep \o example_com, port |-> 443]

\* the urls tests.py uses
TestUrls ==
    { https \o Sep \o example_com,
      http \o Sep \o <<"l","o","c","a","l","h","o","s","t">>,
      https \o Sep \o <<"s","e","c","u","r","e",".","c","o","m">>,
      ftp \o Sep \o <<"f","i","l","e","s",".","c","o","m">>,
      tcp \o Sep \o <<"s","e","r","v","i","c","e",".","c","o","m">>,
      udp \o Sep \o <<"s","t","r","e","a","m",".","c","o","m">>,
      http \o Sep \o <<"1","9","2",".","1","6","8",".","1",".","1">>,
      <<"n","o","t","_","a","_","u","r","l">>,
      ftp \o Sep,
      <<>>,
      https \o Sep \o Repeat("a", 250) \o <<".","c","o","m">> }

\* further urls: the scenario of the specification with a trailing slash, a
\* bare host, valid urls whose path holds a second scheme or ends in slashes,
\* a doubled scheme, and well-formed urls of 270 and of 255 characters
MoreUrls ==
    { https \o Sep \o example_com \o <<"/">>,
      example_com,
      http \o Sep \o example_com \o <<"/">> \o ftp \o Sep \o <<"x">>,
      http \o Sep \o example_com \o <<":","8","0","8","0","/","/">>,
      ftp \o Sep \o ftp \o Sep \o <<"a",".","i","o">>,
      https \o Sep \o example_com \o <<"/">> \o Repeat("a", 250),
      https \o Sep \o example_com \o <<"/">> \o Repeat("a", 235) }

UrlPieces == {ftp, Sep, <<"a",".","i","o">>, <<"/">>}

\* every concatenation of at most n pieces
RECURSIVE Concatenations(_)
Concatenations(n) ==
    IF n = 0 THEN {<<>>}
    ELSE LET shorter == Concatenations(n - 1)
         IN  shorter \cup {u \o p : u \in shorter, p \in UrlPieces}

Urls == TestUrls \cup MoreUrls \cup Concatenations(MaxUrlParts)

\* the five choices, and values outside them: the tests' 'invalid_protocol'
\* and 'a' * 11, a short unknown name and the empty string
Protocols ==
    ProtocolChoices \cup
    { <<"i","n","v","a","l","i","d","_","p","r","o","t","o","c","o","l">>,
      Repeat("a", 11), <<"s","m","t","p">>, <<>> }

\* the boundary values of the tests and a value on each side of them
Ports == {-100, -1, 0, 1, 443, 65535, 65536, 100000}

\* Application(protocol=p, url=u, port=n): an instance not yet saved
Application(p, u, n) == [id |-> 0, protocol |-> p, url |-> u, port |-> n]

NoResponse == [status |-> 0, applications |-> <<>>, total_applications |-> 0]

(***************************************************************************)
(* The model's methods called on one instance.                             *)
(***************************************************************************)
Init ==
    /\ candidate \in {Application(p, u, n) : p \in Protocols, u \in Urls, n \in Ports}
    /\ errors = NoErrors
    /\ out = <<>>
    /\ store = <<>>
    /\ written = <<>>
    /\ nextId = 1
    /\ response = NoResponse
    /\ lastOp = "init"

\* app.full_clean()
FullClean ==
    /\ errors' = full_clean(candidate)
    /\ lastOp' = "full_clean"
    /\ UNCHANGED <<candidate, out, store, written, nextId, response>>

\* validate_port_range(app.port), the validator called on its own
ValidatePortRange ==
    /\ errors' = [NoErrors EXCEPT !["port"] = validate_port_range(candidate.port)]
    /\ lastOp' = "validate_port_range"
    /\ UNCHANGED <<candidate, out, store, written, nextId, response>>

\* app.full_address
FullAddress ==
    /\ out' = full_address(candidate)
    /\ lastOp' = "full_address"
    /\ UNCHANGED <<candidate, errors, store, written, nextId, response>>

\* str(app)
Str ==
    /\ out' = str(candidate)
    /\ lastOp' = "str"
    /\ UNCHANGED <<candidate, errors, store, written, nextId, response>>

Next == FullClean \/ ValidatePortRange \/ FullAddress \/ Str

Spec == Init /\ [][Next]_vars

(***************************************************************************)
(* Persistence: the table of Application rows, the manager calls the tests *)
(* make and the admin's add and change forms.                              *)
(***************************************************************************)
\* a write that stores the url without its scheme
ToRow_clean_url(self) ==
    [protocol |-> self.protocol, url |-> re_sub(self.url), port |-> self.port]

\* the column values an INSERT or UPDATE of an instance writes
ToRow(self) == [protocol |-> self.protocol, url |-> self.url, port |-> self.port]

\* the instance a SELECT builds from the row with primary key id
FromRow(id, row) ==
    [id |-> id, protocol |-> row.protocol, url |-> row.url, port |-> row.port]

\* the table without the row id
Without(table, id) == [i \in DOMAIN table \ {id} |-> table[i]]

StoreProtocols == {https, <<"s","m","t","p">>}

StoreUrls == {valid_application_data.url}

StorePorts == {0, 443}

StoreInit ==
    /\ candidate = Application(valid_application_data.protocol,
                               valid_application_data.url,
                               valid_application_data.port)
    /\ errors = NoErrors
    /\ out = <<>>
    /\ store = <<>>
    /\ written = <<>>
    /\ nextId = 1
    /\ response = NoResponse
    /\ lastOp = "init"

\* Application.objects.create(protocol=p, url=u, port=n): save() without
\* full_clean(); the table's own check on a PositiveIntegerField column
\* refuses a negative port
Create(p, u, n) ==
    /\ nextId <= MaxRecords
    /\ n >= 0
    /\ candidate' = [Application(p, u, n) EXCEPT !.id = nextId]
    /\ store' = store @@ (nextId :> ToRow(candidate'))
    /\ written' = written @@ (nextId :> [protocol |-> p, url |-> u, port |-> n])
    /\ nextId' = nextId + 1
    /\ lastOp' = "create"
    /\ UNCHANGED <<errors, out, response>>

\* Application.objects.get(id=id)
Get(id) ==
    /\ id \in DOMAIN store
    /\ candidate' = FromRow(id, store[id])
    /\ lastOp' = "get"
    /\ UNCHANGED <<errors, out, store, written, nextId, response>>

\* app.protocol, app.url, app.port = p, u, n; app.save(): the full-record
\* update of a saved instance, again without full_clean()
Save(p, u, n) ==
    /\ candidate.id \in DOMAIN store
    /\ n >= 0
    /\ candidate' = [candidate EXCEPT !.protocol = p, !.url = u, !.port = n]
    /\ store' = [store EXCEPT ![candidate.id] = ToRow(candidate')]
    /\ written' = [written EXCEPT ![candidate.id] = [protocol |-> p, url |-> u, port |-> n]]
    /\ lastOp' = "save"
    /\ UNCHANGED <<errors, out, nextId, response>>

\* the admin's delete of the row id
Delete(id) ==
    /\ id \in DOMAIN store
    /\ store' = Without(store, id)
    /\ written' = Without(written, id)
    /\ lastOp' = "delete"
    /\ UNCHANGED <<candidate, errors, out, nextId, response>>

\* the admin's add form posted with (p, u, n): the form runs full_clean()
\* on the instance and saves it only when there is no error
AdminAdd(p, u, n) ==
    /\ nextId <= MaxRecords
    /\ errors' = full_clean(Application(p, u, n))
    /\ lastOp' = "admin_add"
    /\ IF errors' = NoErrors
       THEN /\ candidate' = [Application(p, u, n) EXCEPT !.id = nextId]
            /\ store' = store @@ (nextId :> ToRow(candidate'))
            /\ written' = written @@ (nextId :> [protocol |-> p, url |-> u, port |-> n])
            /\ nextId' = nextId + 1
       ELSE UNCHANGED <<candidate, store, written, nextId>>
    /\ UNCHANGED <<out, response>>

\* the admin's change form of the row id posted with (p, u, n)
AdminChange(id, p, u, n) ==
    /\ id \in DOMAIN store
    /\ errors' = full_clean([FromRow(id, store[id]) EXCEPT !.protocol = p, !.url = u, !.port = n])
    /\ lastOp' = "admin_change"
    /\ IF errors' = NoErrors
       THEN /\ candidate' = [id |-> id, protocol |-> p, url |-> u, port |-> n]
            /\ store' = [store EXCEPT ![id] = ToRow(candidate')]
            /\ written' = [written EXCEPT ![id] = [protocol |-> p, url |-> u, port |-> n]]
       ELSE UNCHANGED <<candidate, store, written>>
    /\ UNCHANGED <<out, nextId, response>>

StoreNext ==
    \/ \E p \in StoreProtocols, u \in StoreUrls, n \in StorePorts \cup {-1} : Create(p, u, n)
    \/ \E id \in 1..MaxRecords : Get(id)
    \/ \E p \in StoreProtocols, u \in StoreUrls, n \in StorePorts : Save(p, u, n)
    \/ \E id \in 1..MaxRecords : Delete(id)
    \/ \E p \in StoreProtocols, u \in StoreUrls, n \in StorePorts : AdminAdd(p, u, n)
    \/ \E id \in 1..MaxRecords, p \in StoreProtocols, u \in StoreUrls, n \in StorePorts :
            AdminChange(id, p, u, n)
    \/ FullAddress
    \/ Str

SpecStore == StoreInit /\ [][StoreNext]_vars


(***************************************************************************)
(* The list views (views.py).                                              *)
(***************************************************************************)
\* paginate_by = 20
paginate_by == 20

\* the characters of the rows listed, in the order of their code points:
\* the order in which the table compares two strings
CodePoints ==
    <<"+", "-", ".", "/">> \o Digits \o <<":">> \o Upper \o <<"_">> \o Lower

Code == [c \in Range(CodePoints) |-> CHOOSE i \in DOMAIN CodePoints : CodePoints[i] = c]

\* the first index from i on at which a and b differ, or at which one ends
RECURSIVE FirstDifference(_, _, _)
FirstDifference(a, b, i) ==
    IF i > Len(a) \/ i > Len(b) \/ a[i] # b[i] THEN i
    ELSE FirstDifference(a, b, i + 1)

\* a < b for two strings
StrLess(a, b) ==
    LET d == FirstDifference(a, b, 1)
    IN  IF d > Len(b) THEN FALSE
        ELSE IF d > Len(a) THEN TRUE
        ELSE Code[a[d]] < Code[b[d]]

\* ordering = ["protocol", "url", "port"]: a sorts before b
KeyLess(a, b) ==
    IF a.protocol # b.protocol THEN StrLess(a.protocol, b.protocol)
    ELSE IF a.url # b.url THEN StrLess(a.url, b.url)
    ELSE a.port < b.port

\* two sequences of ids, each in order, merged; of rows with equal keys
\* those of the first come first
RECURSIVE Merge(_, _, _)
Merge(table, xs, ys) ==
    IF xs = <<>> THEN ys
    ELSE IF ys = <<>> THEN xs
    ELSE IF KeyLess(table[ys[1]], table[xs[1]])
         THEN <<ys[1]>> \o Merge(table, xs, Tail(ys))
         ELSE <<xs[1]>> \o Merge(table, Tail(xs), ys)

\* ids put in the order of ORDER BY protocol, url, port; rows with equal
\* keys stay in the order they have in ids
RECURSIVE OrderedIds(_, _)
OrderedIds(table, ids) ==
    IF Len(ids) <= 1 THEN ids
    ELSE LET half == Len(ids) \div 2
         IN  Merge(table,
                   OrderedIds(table, SubSeq(ids, 1, half)),
                   OrderedIds(table, SubSeq(ids, half + 1, Len(ids))))

\* the ids of the table in ascending order
RECURSIVE IdsAscending(_, _)
IdsAscending(table, from) ==
    IF \A i \in DOMAIN table : i < from THEN <<>>
    ELSE IF from \in DOMAIN table THEN <<from>> \o IdsAscending(table, from + 1)
    ELSE IdsAscending(table, from + 1)

Reverse(seq) == [i \in 1..Len(seq) |-> seq[Len(seq) + 1 - i]]

\* a query without the ordering: the rows in id order
order_by_unordered(table, tieAsc) ==
    LET ids == IF tieAsc THEN IdsAscending(table, 1)
               ELSE Reverse(IdsAscending(table, 1))
    IN  [i \in 1..Len(ids) |-> FromRow(ids[i], table[ids[i]])]

\* Application.objects.all().order_by("protocol", "url", "port"); the
\* ordering leaves the order of rows with equal keys to the database: they
\* come in ascending id order when tieAsc, in descending order otherwise
order_by(table, tieAsc) ==
    LET scan == IF tieAsc THEN IdsAscending(table, 1)
                ELSE Reverse(IdsAscending(table, 1))
        ids == OrderedIds(table, scan)
    IN  [i \in 1..Len(ids) |-> FromRow(ids[i], table[ids[i]])]

\* Application.objects.count()
count(table) == Cardinality(DOMAIN table)

\* Paginator.num_pages with allow_empty_first_page: an empty list has one page
num_pages(n) == IF n = 0 THEN 1 ELSE (n + paginate_by - 1) \div paginate_by

\* Paginator.page(number).object_list: object_list[bottom:top]
page_of(object_list, number) ==
    LET bottom == (number - 1) * paginate_by
        top == IF bottom + paginate_by >= Len(object_list)
               THEN Len(object_list)
               ELSE bottom + paginate_by
    IN  SubSeq(object_list, bottom + 1, top)

\* the context ApplicationListView renders for ?page=number: Http404 for a
\* page that does not exist
list_view(table, number, tieAsc) ==
    IF number < 1 \/ number > num_pages(count(table))
    THEN [status |-> 404, applications |-> <<>>, total_applications |-> 0]
    ELSE [status |-> 200,
          applications |-> page_of(order_by(table, tieAsc), number),
          total_applications |-> count(table)]

ListProtocols == <<ftp, http, https>>

ListUrls ==
    << http \o Sep \o <<"a",".","i","o">>,
       http \o Sep \o <<"a",".","i","o","/">>,
       ftp \o Sep \o <<"a",".","i","o">> >>

ListPorts == <<80, 443, 8080, 9>>

\* the row created i-th in the workload of the given seed
ListRow(i, seed) ==
    [protocol |-> ListProtocols[((i * seed) % 3) + 1],
     url |-> ListUrls[((i \div seed) % 3) + 1],
     port |-> ListPorts[((i + seed) % 4) + 1]]

\* the store after n creates, from none to MaxExtraRows beyond two full pages
ListInit ==
    /\ \E n \in 0..(2 * paginate_by + MaxExtraRows), seed \in {1, 2, 3} :
          /\ store = [i \in 1..n |-> ListRow(i, seed)]
          /\ written = store
          /\ nextId = n + 1
    /\ candidate = Application(valid_application_data.protocol,
                               valid_application_data.url,
                               valid_application_data.port)
    /\ errors = NoErrors
    /\ out = <<>>
    /\ response = NoResponse
    /\ lastOp = "init"

\* GET / or /applications/ with ?page=number, served by ApplicationListView
ListView(number) ==
    /\ \E tieAsc \in BOOLEAN : response' = list_view(store, number, tieAsc)
    /\ lastOp' = "list_view"
    /\ UNCHANGED <<candidate, errors, out, store, written, nextId>>

\* the function-based view application_list, which no url routes to: the
\* whole ordered list, not paginated
application_list ==
    /\ \E tieAsc \in BOOLEAN :
          LET applications == order_by(store, tieAsc)
          IN  response' = [status |-> 200,
                           applications |-> applications,
                           total_applications |-> Len(applications)]
    /\ lastOp' = "application_list"
    /\ UNCHANGED <<candidate, errors, out, store, written, nextId>>

ListNext ==
    \/ \E number \in 0..(num_pages(count(store)) + 1) : ListView(number)
    \/ application_list

SpecList == ListInit /\ [][ListNext]_vars


(***************************************************************************)
(* Claims about validation and full_address, checked under Spec.           *)
(***************************************************************************)
PortRangeText == "Port number must be between 1 and 65535"

\* a url that passes both validators of the url field
WellFormedUrl(u) == IsUrl(u) /\ Len(u) <= 255

\* the fields of an instance that break a declared constraint
Offending(self) ==
    {f \in Fields :
        \/ f = "protocol" /\ self.protocol \notin ProtocolChoices
        \/ f = "url" /\ ~WellFormedUrl(self.url)
        \/ f = "port" /\ self.port \notin 1..65535}

\* C1: with a valid protocol and url, full_clean succeeds exactly when
\* 1 <= port <= 65535, and for every other port it reports an error whose
\* message contains "Port number must be between 1 and 65535"; the same
\* holds of validate_port_range called on its own.
C1_PortRange ==
    /\ (/\ lastOp = "full_clean"
        /\ candidate.protocol \in ProtocolChoices
        /\ WellFormedUrl(candidate.url))
       => /\ (errors = NoErrors) <=> (candidate.port \in 1..65535)
          /\ candidate.port \notin 1..65535
                => \E m \in errors["port"] : PortRangeText \in Range(m)
    /\ lastOp = "validate_port_range"
       => /\ (errors = NoErrors) <=> (candidate.port \in 1..65535)
          /\ candidate.port \notin 1..65535
                => \E m \in errors["port"] : PortRangeText \in Range(m)

C1_Witness ==
    /\ lastOp = "full_clean"
    /\ candidate.protocol = http
    /\ candidate.url = https \o Sep \o example_com
    /\ candidate.port = 65536
    /\ errors["port"] = {PortRangeMessage(65536)}
    /\ ErrorFields(errors) = {"port"}

CallOps == {"full_address", "str"}

\* C2: for a url that begins with the record's own protocol and "://",
\* full_address and str are the verbatim concatenation
\* protocol + "://" + url + ":" + port, with the scheme doubled.
C2_VerbatimConcatenation ==
    (/\ lastOp \in CallOps
     /\ candidate.protocol \in {http, https, ftp, tcp, udp}
     /\ StartsWith(candidate.url, candidate.protocol \o Sep))
        => out = candidate.protocol \o Sep \o candidate.url
                    \o <<":">> \o IntToStr(candidate.port)

\* the number of "://" in s
SepCount(s) == Cardinality({i \in 1..(Len(s) - 2) : SubSeq(s, i, i + 2) = Sep})

\* u begins with a scheme name of k characters followed by "://"
LeadingScheme(u, k) ==
    /\ k >= 1 /\ k + 3 <= Len(u)
    /\ u[1] \in LetterChars
    /\ \A i \in 2..k : u[i] \in SchemeChars
    /\ SubSeq(u, k + 1, k + 3) = Sep

C5_ProtocolChoices ==
    (/\ lastOp = "full_clean"
     /\ WellFormedUrl(candidate.url)
     /\ candidate.port \in 1..65535)
        => ((errors = NoErrors) <=> (candidate.protocol \in {http, https, ftp, tcp, udp}))

C5_Witness ==
    /\ lastOp = "full_clean"
    /\ candidate.protocol = <<"i","n","v","a","l","i","d","_","p","r","o","t","o","c","o","l">>
    /\ candidate.url = https \o Sep \o example_com
    /\ candidate.port = 443
    /\ ErrorFields(errors) = {"protocol"}

\* C9: one full_clean reports an error under the name of every field that
\* breaks a constraint, and under no other name, however many fields do;
\* it changes neither the instance nor the store.
C9_ErrorsCollected ==
    [][lastOp' = "full_clean"
          => /\ ErrorFields(errors') = Offending(candidate)
             /\ candidate' = candidate
             /\ store' = store]_vars

C9_Witness ==
    /\ lastOp = "full_clean"
    /\ candidate.protocol = <<"s","m","t","p">>
    /\ candidate.port = 0
    /\ WellFormedUrl(candidate.url)
    /\ ErrorFields(errors) = {"protocol", "port"}

\* C10: full_clean fails on a url of more than 255 characters and on a
\* protocol of more than 10 characters, whatever the other fields are.
C10_MaxLengths ==
    lastOp = "full_clean"
        => /\ Len(candidate.url) > 255 => errors["url"] # {}
           /\ Len(candidate.protocol) > 10 => errors["protocol"] # {}

C10_Witness ==
    /\ lastOp = "full_clean"
    /\ candidate.url = https \o Sep \o example_com \o <<"/">> \o Repeat("a", 250)
    /\ candidate.protocol = https
    /\ candidate.port = 443
    /\ ErrorFields(errors) = {"url"}

(***************************************************************************)
(* Claims about the store, checked under SpecStore.                        *)
(***************************************************************************)
\* a row that satisfies the port range and the protocol choices
RowValid(row) ==
    row.port \in 1..65535 /\ row.protocol \in {http, https, ftp, tcp, udp}

\* C4 as stated: after any sequence of writes, Application.objects.create
\* included, every row of the store has 1 <= port <= 65535 and one of the
\* five protocols.
C4_StoreAlwaysValid == \A id \in DOMAIN store : RowValid(store[id])

AdminOps == {"admin_add", "admin_change"}

\* C4 as amended: validation is applied on the writes that call
\* full_clean(), as the admin's forms do: every row such a write inserts or
\* changes has 1 <= port <= 65535 and one of the five protocols, and a
\* candidate with a validation error is not written by it.
C4_FormWritesValid ==
    [][lastOp' \in AdminOps
          => /\ \A id \in DOMAIN store' :
                    (id \notin DOMAIN store \/ store'[id] # store[id])
                        => RowValid(store'[id])
             /\ errors' # NoErrors => store' = store]_vars

C4_Witness ==
    /\ lastOp = "admin_add"
    /\ errors = NoErrors
    /\ candidate.id \in DOMAIN store
    /\ store[candidate.id] = ToRow(candidate)
    /\ RowValid(store[candidate.id])

\* C6: str(record) is full_address of the record's current fields, for the
\* instance in hand after every create, read and update and for every row
\* of the store, and a row holds the three fields and no address.
C6_StrIsFullAddress ==
    /\ lastOp \in CallOps => out = full_address(candidate)
    /\ str(candidate) = full_address(candidate)
    /\ \A id \in DOMAIN store :
          /\ str(FromRow(id, store[id])) = full_address(FromRow(id, store[id]))
          /\ DOMAIN store[id] = {"protocol", "url", "port"}

C6_Witness ==
    /\ lastOp = "str"
    /\ candidate.id = 1
    /\ store[1] = [protocol |-> https, url |-> https \o Sep \o example_com, port |-> 0]
    /\ candidate = FromRow(1, store[1])
    /\ out = https \o Sep \o example_com \o <<":", "0">>

\* C7: create gives the instance an id that is not None, and a read by that
\* id yields the protocol, url and port last written under it, whatever
\* other rows were created in between.
C7_RoundTrip ==
    /\ lastOp = "create" => candidate.id >= 1 /\ candidate.id \in DOMAIN store
    /\ lastOp = "get"
          => /\ candidate.id \in DOMAIN written
             /\ ToRow(candidate) = written[candidate.id]

C7_Witness ==
    /\ lastOp = "get"
    /\ candidate.id = 1
    /\ 2 \in DOMAIN store
    /\ ToRow(candidate) = valid_application_data
    /\ store[2] # store[1]

(***************************************************************************)
(* Claims about the list view, checked under SpecList.                     *)
(***************************************************************************)
\* seq is in ascending order of (protocol, url, port)
Ascending(seq) == \A i, j \in 1..Len(seq) : i < j => ~KeyLess(seq[j], seq[i])

\* seq holds every row of the store exactly once
ListsStore(seq) ==
    /\ Len(seq) = Cardinality(DOMAIN store)
    /\ {seq[i].id : i \in 1..Len(seq)} = DOMAIN store
    /\ \A i \in 1..Len(seq) : seq[i] = FromRow(seq[i].id, store[seq[i].id])

\* the pages first..last of the list view, one after the other
RECURSIVE PagesInSequence(_, _, _)
PagesInSequence(first, last, tieAsc) ==
    IF first > last THEN <<>>
    ELSE list_view(store, first, tieAsc).applications
            \o PagesInSequence(first + 1, last, tieAsc)

\* the rows 20(p-1)+1..20p of seq
Rows(seq, p) ==
    SubSeq(seq, 20 * (p - 1) + 1, IF 20 * p < Len(seq) THEN 20 * p ELSE Len(seq))

====
